---- MODULE Spec2Model ----
(* A model of src/models/crates.rs of deps.rs: the validated crate name,    *)
(* the three-group dependency collection, its projection onto the external  *)
(* dependencies and the "outdated" predicates.                              *)
EXTENDS Integers, Sequences, FiniteSets, TLC

VARIABLES
    input,      \* the &str handed to CrateName::from_str, as a sequence of code points
    parsed,     \* the Result<CrateName, Error> of the last from_str call
    deps,       \* the CrateDeps value handed to AnalyzedDependencies::new
    analyzed,   \* the AnalyzedDependencies value
    made,       \* TRUE once AnalyzedDependencies::new has returned
    last,       \* the operation that ran last: [op, group, idx]
    ret,        \* the value returned by the last is_outdated / any_outdated call
    writes,     \* how many times a collaborator wrote a field or filled an entry
    seen        \* per entry, the release set the registry filled it from

vars == <<input, parsed, deps, analyzed, made, last, ret, writes, seen>>

-----------------------------------------------------------------------------
(* Bounds of the model.                                                     *)

\* Longest string handed to from_str.
MaxLen == 3

\* Most entries in one group of a CrateDeps.
MaxDeps == 2

\* Versions are major.minor.0 with major in 1..MaxMajor.
MaxMajor == 2

\* Most collaborator writes to the fields of one AnalyzedDependencies value.
MaxWrites == 3

\* Most registry fills of the entries of one AnalyzedDependencies value.
MaxFills == 2

-----------------------------------------------------------------------------
(* CrateName::from_str, lines 30-44.                                        *)

\* Code points used to build the inputs: the borders of the three ASCII
\* alphanumeric ranges, '_', '-', characters of the spec's failing examples
\* ('.', '/', '@'), a space, and one non-ASCII letter (U+00E9).
Alphabet == {32, 45, 46, 47, 48, 57, 58, 64, 65, 90, 91, 95, 96, 97, 122, 123, 233}

Strings == UNION {[1..n -> Alphabet] : n \in 0..MaxLen}

\* Mutant: char::is_alphanumeric, which also admits non-ASCII letters.
is_alphanumeric(c) ==
    \/ (48 <= c /\ c <= 57)
    \/ (65 <= c /\ c <= 90)
    \/ (97 <= c /\ c <= 122)
    \/ c = 233

\* char::is_ascii_alphanumeric: '0'..='9' | 'A'..='Z' | 'a'..='z'.
is_ascii_alphanumeric(c) ==
    \/ (48 <= c /\ c <= 57)
    \/ (65 <= c /\ c <= 90)
    \/ (97 <= c /\ c <= 122)

\* The closure of line 35.
is_valid_char(c) == is_ascii_alphanumeric(c) \/ c = 95 \/ c = 45

\* input.chars().all(..): the scan stops at the first character that fails.
RECURSIVE chars_all(_, _)
chars_all(s, i) ==
    IF i > Len(s) THEN TRUE
    ELSE IF ~is_valid_char(s[i]) THEN FALSE
    ELSE chars_all(s, i + 1)

\* input.to_string(): a fresh String holding a copy of every character.
to_string(s) == [i \in 1..Len(s) |-> s[i]]

NotParsed == [tag |-> "None", name |-> <<>>]

\* The match of lines 38-42.
from_str(s) ==
    LET is_valid == chars_all(s, 1)
    IN  IF ~is_valid
        THEN [tag |-> "Err", name |-> <<>>]
        ELSE [tag |-> "Ok", name |-> to_string(s)]

-----------------------------------------------------------------------------
(* The values of lines 46-81.                                               *)

Groups == {"main", "dev", "build"}

\* Option<T>: None is the empty sequence, Some(v) the one-element sequence.
None == <<>>
Some(v) == <<v>>

\* semver::Version without pre-release or build metadata.
Version(ma, mi, pa) == [major |-> ma, minor |-> mi, patch |-> pa]

\* The releases the registry knows of: the versions of the spec's examples.
Versions == {Version(1, 0, 0), Version(1, 2, 0), Version(1, 5, 0), Version(2, 0, 0)}

OptVersions == {None} \cup {Some(v) : v \in Versions}

\* semver::VersionReq: the caret requirements ^m.0, one per major version.
Caret(m) == [op |-> "^", major |-> m, minor |-> 0]
Reqs == {Caret(m) : m \in 1..MaxMajor}

\* enum CrateDep, lines 53-57.
External(req) == [kind |-> "External", req |-> req, path |-> ""]
Internal(path) == [kind |-> "Internal", req |-> Caret(0), path |-> path]
CrateDepValues == {External(r) : r \in Reqs} \cup {Internal("../util")}

\* CrateDep::is_external, lines 60-66.
is_external(dep) == IF dep.kind = "External" THEN TRUE ELSE FALSE

\* The crate names of the manifests.
Names == {"serde", "workspace_util"}

\* OrderMap<CrateName, V>: the entries in insertion order, keys unique.
Entry(name, value) == [name |-> name, value |-> value]
UniqueKeys(m) == \A i, j \in 1..Len(m) : m[i].name = m[j].name => i = j
OrderMaps(values) ==
    {m \in UNION {[1..n -> {Entry(k, v) : k \in Names, v \in values}] : n \in 0..MaxDeps} :
        UniqueKeys(m)}

\* struct CrateDeps, lines 69-74.
CrateDeps(main, dev, build) == [main |-> main, dev |-> dev, build |-> build]
DepsInputs ==
    {CrateDeps(m, d, b) : m \in OrderMaps(CrateDepValues),
                          d \in OrderMaps(CrateDepValues),
                          b \in OrderMaps(CrateDepValues)}

\* #[derive(Default)] of CrateDeps: three empty maps.
DefaultCrateDeps == CrateDeps(<<>>, <<>>, <<>>)

-----------------------------------------------------------------------------
(* impl AnalyzedDependency, lines 83-95.                                    *)

\* Mutant: latest_that_matches starts at a placeholder version, not absent.
AnalyzedDependencyNew_placeholder(required) ==
    [required |-> required,
     latest_that_matches |-> <<[major |-> 0, minor |-> 0, patch |-> 0]>>,
     latest |-> <<>>]

\* AnalyzedDependency::new, lines 84-90.
AnalyzedDependencyNew(required) ==
    [required |-> required, latest_that_matches |-> None, latest |-> None]

\* Ord for integers.
CmpInt(a, b) == IF a < b THEN "Less" ELSE IF a > b THEN "Greater" ELSE "Equal"

\* Ord for semver::Version: major, then minor, then patch.
VersionCmp(a, b) ==
    LET c1 == CmpInt(a.major, b.major)
        c2 == CmpInt(a.minor, b.minor)
    IN  IF c1 # "Equal" THEN c1
        ELSE IF c2 # "Equal" THEN c2
        ELSE CmpInt(a.patch, b.patch)

\* Mutant: an ordering of the optional values that puts None after every Some.
OptionCmp_none_last(a, b) ==
    IF a = None /\ b = None THEN "Equal"
    ELSE IF a = None THEN "Greater"
    ELSE IF b = None THEN "Less"
    ELSE VersionCmp(a[1], b[1])

\* The derived PartialOrd of Option<Version>: None before every Some.
OptionCmp(a, b) ==
    IF a = None /\ b = None THEN "Equal"
    ELSE IF a = None THEN "Less"
    ELSE IF b = None THEN "Greater"
    ELSE VersionCmp(a[1], b[1])

\* Mutant: `>=` in place of `>`.
is_outdated_ge(dep) == OptionCmp(dep.latest, dep.latest_that_matches) # "Less"

\* Mutant: `!=` in place of `>`.
is_outdated_ne(dep) == dep.latest # dep.latest_that_matches

\* Mutant: the operands of `>` swapped.
is_outdated_swapped(dep) == OptionCmp(dep.latest_that_matches, dep.latest) = "Greater"

\* AnalyzedDependency::is_outdated, lines 92-94.
is_outdated(dep) == OptionCmp(dep.latest, dep.latest_that_matches) = "Greater"

-----------------------------------------------------------------------------
(* impl AnalyzedDependencies, lines 104-139.                                *)

\* OrderMap::insert: replace the value of a present key in place, else append.
OrderMapInsert(m, name, value) ==
    IF \E i \in 1..Len(m) : m[i].name = name
    THEN [i \in 1..Len(m) |-> IF m[i].name = name THEN Entry(name, value) ELSE m[i]]
    ELSE Append(m, Entry(name, value))

\* Mutant: map without the filter, so that path dependencies are kept too.
RECURSIVE FilterMapCollect_keep_all(_, _, _)
FilterMapCollect_keep_all(group, i, acc) ==
    IF i > Len(group) THEN acc
    ELSE FilterMapCollect_keep_all(group, i + 1,
             OrderMapInsert(acc, group[i].name,
                            AnalyzedDependencyNew(group[i].value.req)))

\* iter().filter_map(..).collect() of lines 106-112 (and 113-119, 120-126).
RECURSIVE FilterMapCollect(_, _, _)
FilterMapCollect(group, i, acc) ==
    IF i > Len(group) THEN acc
    ELSE IF group[i].value.kind = "External"
         THEN FilterMapCollect(group, i + 1,
                  OrderMapInsert(acc, group[i].name,
                                 AnalyzedDependencyNew(group[i].value.req)))
         ELSE FilterMapCollect(group, i + 1, acc)

\* Mutant: the copied closure of the dev group still reads deps.main.
AnalyzedDependenciesNew_dev_from_main(d) ==
    LET main == FilterMapCollect(d.main, 1, <<>>)
        dev == FilterMapCollect(d.main, 1, <<>>)
        build == FilterMapCollect(d.build, 1, <<>>)
    IN  [main |-> main, dev |-> dev, build |-> build]

\* AnalyzedDependencies::new, lines 105-128.
AnalyzedDependenciesNew(d) ==
    LET main == FilterMapCollect(d.main, 1, <<>>)
        dev == FilterMapCollect(d.dev, 1, <<>>)
        build == FilterMapCollect(d.build, 1, <<>>)
    IN  [main |-> main, dev |-> dev, build |-> build]

\* Mutant: iter().all(..) in place of iter().any(..).
RECURSIVE IterAny_all(_, _)
IterAny_all(group, i) ==
    IF i > Len(group) THEN TRUE
    ELSE IF ~is_outdated(group[i].value) THEN FALSE
    ELSE IterAny_all(group, i + 1)

\* iter().any(|(_, dep)| dep.is_outdated()) of lines 131-136.
RECURSIVE IterAny(_, _)
IterAny(group, i) ==
    IF i > Len(group) THEN FALSE
    ELSE IF is_outdated(group[i].value) THEN TRUE
    ELSE IterAny(group, i + 1)

\* Mutant: the dev group left out of the disjunction.
any_outdated_skip_dev(a) ==
    LET main_any_outdated == IterAny(a.main, 1)
        build_any_outdated == IterAny(a.build, 1)
    IN  main_any_outdated \/ build_any_outdated

\* AnalyzedDependencies::any_outdated, lines 130-138.
any_outdated(a) ==
    LET main_any_outdated == IterAny(a.main, 1)
        dev_any_outdated == IterAny(a.dev, 1)
        build_any_outdated == IterAny(a.build, 1)
    IN  main_any_outdated \/ dev_any_outdated \/ build_any_outdated

\* The value of `analyzed` before AnalyzedDependencies::new has run.
NoAnalyzed == [main |-> <<>>, dev |-> <<>>, build |-> <<>>]

-----------------------------------------------------------------------------
(* Inputs and initial states.                                               *)

\* The manifest of the spec's end-to-end scenario in main, with dev and build
\* groups that put the path dependency first and two registry dependencies
\* side by side.
Manifest ==
    CrateDeps(<<Entry("serde", External(Caret(1))),
                Entry("workspace_util", Internal("../util"))>>,
              <<Entry("workspace_util", Internal("../util")),
                Entry("serde", External(Caret(2)))>>,
              <<Entry("serde", External(Caret(1))),
                Entry("workspace_util", External(Caret(2)))>>)

\* The manifests analysed over time: every choice of groups of Manifest.
LifeInputs ==
    {CrateDeps(m, d, b) : m \in {<<>>, Manifest.main},
                          d \in {<<>>, Manifest.dev},
                          b \in {<<>>, Manifest.build}}

Op(op, group, idx) == [op |-> op, group |-> group, idx |-> idx]

Unfilled == [filled |-> FALSE, releases |-> {}]
NoSeen == [g \in Groups |-> <<>>]

InitCommon ==
    /\ parsed = NotParsed
    /\ analyzed = NoAnalyzed
    /\ made = FALSE
    /\ last = Op("init", "", 0)
    /\ ret = FALSE
    /\ writes = 0
    /\ seen = NoSeen

\* A string is about to be parsed.
InitParse ==
    /\ input \in Strings
    /\ deps = DefaultCrateDeps
    /\ InitCommon

\* Any CrateDeps within the bounds is about to be projected.
InitNew ==
    /\ input = <<>>
    /\ deps \in DepsInputs
    /\ InitCommon

\* A manifest is about to be analysed and populated.
Init ==
    /\ input = <<>>
    /\ deps \in LifeInputs
    /\ InitCommon

-----------------------------------------------------------------------------
(* Operations.                                                              *)

\* input.parse::<CrateName>(), lines 33-43.
FromStr ==
    /\ last.op = "init"
    /\ parsed' = from_str(input)
    /\ last' = Op("from_str", "", 0)
    /\ UNCHANGED <<input, deps, analyzed, made, ret, writes, seen>>

\* AnalyzedDependencies::new(&deps), lines 105-128.
New ==
    /\ ~made
    /\ analyzed' = AnalyzedDependenciesNew(deps)
    /\ made' = TRUE
    /\ seen' = [g \in Groups |-> [i \in 1..Len(analyzed'[g]) |-> Unfilled]]
    /\ last' = Op("new", "", 0)
    /\ UNCHANGED <<input, parsed, deps, ret, writes>>

\* The entry at position i of group g with one field replaced.
WithLatest(a, g, i, v) == [a EXCEPT ![g][i].value.latest = v]
WithLatestThatMatches(a, g, i, v) == [a EXCEPT ![g][i].value.latest_that_matches = v]

\* A collaborator assigns the public field `latest` (line 80) of one entry.
SetLatest(g, i, v) ==
    /\ made
    /\ writes < MaxWrites
    /\ i \in 1..Len(analyzed[g])
    /\ analyzed' = WithLatest(analyzed, g, i, v)
    /\ writes' = writes + 1
    /\ last' = Op("set_latest", g, i)
    /\ UNCHANGED <<input, parsed, deps, made, ret, seen>>

\* A collaborator assigns the public field `latest_that_matches` (line 79).
SetLatestThatMatches(g, i, v) ==
    /\ made
    /\ writes < MaxWrites
    /\ i \in 1..Len(analyzed[g])
    /\ analyzed' = WithLatestThatMatches(analyzed, g, i, v)
    /\ writes' = writes + 1
    /\ last' = Op("set_latest_that_matches", g, i)
    /\ UNCHANGED <<input, parsed, deps, made, ret, seen>>

\* dep.is_outdated() on the entry at position i of group g, lines 92-94.
IsOutdated(g, i) ==
    /\ made
    /\ i \in 1..Len(analyzed[g])
    /\ ret' = is_outdated(analyzed[g][i].value)
    /\ last' = Op("is_outdated", g, i)
    /\ UNCHANGED <<input, parsed, deps, analyzed, made, writes, seen>>

\* VersionReq::matches for a caret requirement ^m.0 with m >= 1: the same
\* major version.
Matches(req, v) == v.major = req.major /\ (v.minor > req.minor \/ v.minor = req.minor)

\* The greatest version of a non-empty set, absent for the empty set.
MaxVersion(S) ==
    IF S = {} THEN None
    ELSE Some(CHOOSE v \in S : \A w \in S : VersionCmp(w, v) # "Greater")

\* The registry collaborator fills one entry from the non-yanked releases it
\* observed (the freshness-query contract): latest is the greatest release,
\* latest_that_matches the greatest release the requirement admits.
Fill(g, i, releases) ==
    /\ made
    /\ writes < MaxFills
    /\ i \in 1..Len(analyzed[g])
    /\ LET required == analyzed[g][i].value.required
           matching == {v \in releases : Matches(required, v)}
       IN  analyzed' = WithLatestThatMatches(
                           WithLatest(analyzed, g, i, MaxVersion(releases)),
                           g, i, MaxVersion(matching))
    /\ seen' = [seen EXCEPT ![g][i] = [filled |-> TRUE, releases |-> releases]]
    /\ writes' = writes + 1
    /\ last' = Op("fill", g, i)
    /\ UNCHANGED <<input, parsed, deps, made, ret>>

\* analyzed.any_outdated(), lines 130-138.
AnyOutdated ==
    /\ made
    /\ ret' = any_outdated(analyzed)
    /\ last' = Op("any_outdated", "", 0)
    /\ UNCHANGED <<input, parsed, deps, analyzed, made, writes, seen>>

-----------------------------------------------------------------------------
(* Specifications.                                                          *)

NextParse == FromStr

SpecParse == InitParse /\ [][NextParse]_vars

NextNew ==
    \/ New
    \/ \E g \in Groups : \E i \in 1..MaxDeps : IsOutdated(g, i)
    \/ AnyOutdated

SpecNew == InitNew /\ [][NextNew]_vars

Next ==
    \/ New
    \/ \E g \in Groups : \E i \in 1..MaxDeps : \E v \in OptVersions : SetLatest(g, i, v)
    \/ \E g \in Groups : \E i \in 1..MaxDeps : \E v \in OptVersions :
           SetLatestThatMatches(g, i, v)
    \/ \E g \in Groups : \E i \in 1..MaxDeps : IsOutdated(g, i)
    \/ AnyOutdated

Spec == Init /\ [][Next]_vars

NextRegistry ==
    \/ New
    \/ \E g \in Groups : \E i \in 1..MaxDeps : \E releases \in SUBSET Versions :
           Fill(g, i, releases)
    \/ \E g \in Groups : \E i \in 1..MaxDeps : IsOutdated(g, i)
    \/ AnyOutdated

SpecRegistry == Init /\ [][NextRegistry]_vars

-----------------------------------------------------------------------------
(* The orders and sets the properties are stated with.                      *)

\* a precedes b in semantic-version precedence.
VersionLess(a, b) ==
    \/ a.major < b.major
    \/ a.major = b.major /\ a.minor < b.minor
    \/ a.major = b.major /\ a.minor = b.minor /\ a.patch < b.patch

\* The total order of the optional versions: absent is strictly less than
\* every present version, and absent equals absent.
AbsentLess(a, b) ==
    \/ a = None /\ b # None
    \/ a # None /\ b # None /\ VersionLess(a[1], b[1])

\* The entry the last is_outdated call or field write was about.
Target == analyzed[last.group][last.idx].value

\* Every (group, position) of an AnalyzedDependencies value.
Positions(a) == {p \in Groups \X (1..MaxDeps) : p[2] <= Len(a[p[1]])}

\* The entry of a at position p.
At(a, p) == a[p[1]][p[2]].value

-----------------------------------------------------------------------------
(* C1: is_outdated() returns true exactly when latest_that_matches is       *)
(* strictly less than latest in the order where absent is below every       *)
(* present version: both absent -> false, latest present and                *)
(* latest_that_matches absent -> true, both present and equal -> false,     *)
(* both present with latest strictly greater -> true.                       *)
C1_IsOutdatedOrder ==
    last.op = "is_outdated" =>
        /\ ret = AbsentLess(Target.latest_that_matches, Target.latest)
        /\ (Target.latest = None /\ Target.latest_that_matches = None => ret = FALSE)
        /\ (Target.latest # None /\ Target.latest_that_matches = None => ret = TRUE)
        /\ (Target.latest # None /\ Target.latest = Target.latest_that_matches
                => ret = FALSE)
        /\ (Target.latest # None /\ Target.latest_that_matches # None
              /\ VersionLess(Target.latest_that_matches[1], Target.latest[1])
                => ret = TRUE)

\* is_outdated() has answered true for latest = 2.0.0 over
\* latest_that_matches = 1.5.0.
C1_Witness ==
    /\ last.op = "is_outdated"
    /\ Target.latest = Some(Version(2, 0, 0))
    /\ Target.latest_that_matches = Some(Version(1, 5, 0))
    /\ ret = TRUE

-----------------------------------------------------------------------------
\* The projection stated on the input: the External entries of a group, in
\* their order, each with its requirement and both optional fields absent.
IsExternalEntry(e) == is_external(e.value)
Projected(group) ==
    LET kept == SelectSeq(group, IsExternalEntry)
    IN  [i \in 1..Len(kept) |->
            Entry(kept[i].name,
                  [required |-> kept[i].value.req,
                   latest_that_matches |-> None,
                   latest |-> None])]

(* C2: AnalyzedDependencies::new yields, for each group separately, exactly *)
(* the External entries of the same input group in their original order,    *)
(* each with required equal to the entry's requirement and both optional    *)
(* fields absent; no Internal entry appears and no entry changes group.     *)
C2_Projection ==
    last.op = "new" =>
        /\ \A g \in Groups : analyzed[g] = Projected(deps[g])
        /\ \A g \in Groups : \A i \in 1..Len(analyzed[g]) :
              \E j \in 1..Len(deps[g]) :
                  /\ deps[g][j].name = analyzed[g][i].name
                  /\ deps[g][j].value = External(analyzed[g][i].value.required)

\* new has projected an input in which serde is a path dependency in main
\* and a registry dependency in dev, after another path dependency.
C2_Witness ==
    /\ last.op = "new"
    /\ deps.main = <<Entry("serde", Internal("../util"))>>
    /\ deps.dev = <<Entry("workspace_util", Internal("../util")),
                    Entry("serde", External(Caret(2)))>>
    /\ deps.build = <<Entry("workspace_util", External(Caret(1))),
                      Entry("serde", External(Caret(2)))>>
    /\ analyzed.main = <<>>
    /\ Len(analyzed.dev) = 1
    /\ Len(analyzed.build) = 2

-----------------------------------------------------------------------------
(* C3: any_outdated() returns true exactly when at least one entry of main, *)
(* dev or build is outdated: false when all three groups are empty, true    *)
(* when exactly one entry of dev and none of main or build is outdated; the *)
(* call changes no entry.                                                   *)
C3_AnyOutdated ==
    [][last'.op = "any_outdated" =>
          /\ ret' = (\E p \in Positions(analyzed) : is_outdated(At(analyzed, p)))
          /\ (Positions(analyzed) = {} => ret' = FALSE)
          /\ ({p \in Positions(analyzed) : is_outdated(At(analyzed, p))}
                  = {<<"dev", 1>>} => ret' = TRUE)
          /\ analyzed' = analyzed]_vars

\* any_outdated() has answered true with the only outdated entry in dev and
\* untouched entries in main and build.
C3_Witness ==
    /\ last.op = "any_outdated"
    /\ ret = TRUE
    /\ Len(analyzed.main) = 1 /\ Len(analyzed.build) = 2
    /\ {p \in Positions(analyzed) : AbsentLess(At(analyzed, p).latest_that_matches,
                                               At(analyzed, p).latest)}
           = {<<"dev", 1>>}

-----------------------------------------------------------------------------
\* The characters of [A-Za-z0-9_-].
NameChars == (48..57) \cup (65..90) \cup (97..122) \cup {95, 45}

(* C4: parsing s into a CrateName succeeds iff every character of s is an   *)
(* ASCII letter, an ASCII digit, '_' or '-' (the empty string included); on *)
(* success the stored name is exactly s, on failure the result is an error  *)
(* and no name is produced.                                                 *)
C4_Parse ==
    last.op = "from_str" =>
        /\ parsed.tag \in {"Ok", "Err"}
        /\ parsed.tag = "Ok" <=> (\A i \in 1..Len(input) : input[i] \in NameChars)
        /\ (input = <<>> => parsed.tag = "Ok")
        /\ (parsed.tag = "Ok" => parsed.name = input)
        /\ (parsed.tag = "Err" => parsed.name = <<>>)

\* "a/b"-like input: a string with a letter, a '/' and a digit was rejected.
C4_Witness ==
    /\ last.op = "from_str"
    /\ input = <<97, 47, 48>>
    /\ parsed.tag = "Err"

-----------------------------------------------------------------------------
\* The manifest of the end-to-end scenario: serde from the registry and
\* workspace_util by path in main, nothing in dev and build.
ScenarioDeps == CrateDeps(Manifest.main, <<>>, <<>>)

(* C5: in the end-to-end scenario, (1) after new, main holds only serde     *)
(* with required ^1.0, both optional fields absent, and is_outdated() is    *)
(* false; (2) with latest = 1.2.0 and latest_that_matches = 1.2.0           *)
(* is_outdated() is still false; (3) once latest is 2.0.0 while             *)
(* latest_that_matches stays 1.2.0, is_outdated() and any_outdated() are    *)
(* both true.                                                               *)
C5_Scenario ==
    (deps = ScenarioDeps /\ made) =>
        /\ Len(analyzed.main) = 1 /\ analyzed.dev = <<>> /\ analyzed.build = <<>>
        /\ analyzed.main[1].name = "serde"
        /\ analyzed.main[1].value.required = Caret(1)
        /\ (writes = 0 =>
              /\ analyzed.main[1].value.latest = None
              /\ analyzed.main[1].value.latest_that_matches = None
              /\ (last.op = "is_outdated" => ret = FALSE))
        /\ ((/\ analyzed.main[1].value.latest = Some(Version(1, 2, 0))
             /\ analyzed.main[1].value.latest_that_matches = Some(Version(1, 2, 0))
             /\ last.op = "is_outdated")
                => ret = FALSE)
        /\ ((/\ analyzed.main[1].value.latest = Some(Version(2, 0, 0))
             /\ analyzed.main[1].value.latest_that_matches = Some(Version(1, 2, 0))
             /\ last.op \in {"is_outdated", "any_outdated"})
                => ret = TRUE)

\* The scenario has run to its end: three field writes, latest = 2.0.0 over
\* latest_that_matches = 1.2.0, and any_outdated() answered true.
C5_Witness ==
    /\ deps = ScenarioDeps
    /\ writes = 3
    /\ analyzed.main[1].value.latest = Some(Version(2, 0, 0))
    /\ analyzed.main[1].value.latest_that_matches = Some(Version(1, 2, 0))
    /\ last.op = "any_outdated"
    /\ ret = TRUE

-----------------------------------------------------------------------------
(* C6, as stated: once one of the two optional fields of an entry is        *)
(* present it is never set back to absent and never written again.          *)
C6_WrittenOnce ==
    [][\A p \in Positions(analyzed) :
          /\ (At(analyzed, p).latest # None
                => At(analyzed', p).latest = At(analyzed, p).latest)
          /\ (At(analyzed, p).latest_that_matches # None
                => At(analyzed', p).latest_that_matches
                       = At(analyzed, p).latest_that_matches)]_vars

(* C6, amended: both optional fields are absent when new returns, and       *)
(* neither is_outdated() nor any_outdated() writes them; a field changes    *)
(* only by a collaborator's assignment to it, which touches that one field  *)
(* of that one entry, and which the type does not limit: a present field    *)
(* may be overwritten or set back to absent.                                *)
C6_WrittenByCollaboratorOnly ==
    [][/\ (last'.op = "new" =>
              \A p \in Positions(analyzed') :
                  /\ At(analyzed', p).latest = None
                  /\ At(analyzed', p).latest_that_matches = None)
       /\ (last'.op \in {"is_outdated", "any_outdated"} => analyzed' = analyzed)
       /\ (last'.op = "set_latest" =>
              analyzed' = WithLatest(analyzed, last'.group, last'.idx,
                                     At(analyzed', <<last'.group, last'.idx>>).latest))
       /\ (last'.op = "set_latest_that_matches" =>
              analyzed' = WithLatestThatMatches(analyzed, last'.group, last'.idx,
                  At(analyzed', <<last'.group, last'.idx>>).latest_that_matches))]_vars

\* The one entry of the scenario has been written three times, so one of its
\* two fields more than once, and latest is absent again.
C6_Witness ==
    /\ deps = ScenarioDeps
    /\ writes = 3
    /\ last.op = "set_latest"
    /\ analyzed.main[1].value.latest = None
    /\ analyzed.main[1].value.latest_that_matches = Some(Version(1, 2, 0))

-----------------------------------------------------------------------------
\* d with the two groups other than g replaced.
OtherGroups(g) == Groups \ {g}
WithOthers(d, g, x, y) ==
    LET h1 == CHOOSE h \in OtherGroups(g) : TRUE
        h2 == CHOOSE h \in OtherGroups(g) : h # h1
    IN  [d EXCEPT ![h1] = x, ![h2] = y]

(* C7: each output group of new depends on the input group of the same name *)
(* only, and new leaves its input unmodified; a write to a field of an      *)
(* entry of one group changes neither the entries nor the is_outdated()     *)
(* results of the other two groups.                                         *)
C7_GroupsIndependent ==
    [][/\ (last'.op = "new" =>
              /\ deps' = deps
              /\ \A g \in Groups :
                    \A x, y \in OrderMaps(CrateDepValues) :
                        AnalyzedDependenciesNew(WithOthers(deps, g, x, y))[g]
                            = analyzed'[g])
       /\ (last'.op \in {"set_latest", "set_latest_that_matches"} =>
              \A g \in OtherGroups(last'.group) :
                  /\ analyzed'[g] = analyzed[g]
                  /\ \A i \in 1..Len(analyzed[g]) :
                        is_outdated(analyzed'[g][i].value)
                            = is_outdated(analyzed[g][i].value))]_vars

\* latest of the dev entry has just been written while main and build hold
\* entries, build an outdated one.
C7_Witness ==
    /\ last = Op("set_latest", "dev", 1)
    /\ analyzed.dev[1].value.latest # None
    /\ Len(analyzed.main) = 1
    /\ Len(analyzed.build) = 2
    /\ analyzed.build[2].value.latest # None
    /\ analyzed.build[2].value.latest_that_matches = None

-----------------------------------------------------------------------------
\* The entry breaks the invariant the collaborators are assumed to uphold:
\* latest_that_matches is present and latest is absent or a lesser version.
BreaksAssumedOrder(dep) ==
    /\ dep.latest_that_matches # None
    /\ \/ dep.latest = None
       \/ VersionLess(dep.latest[1], dep.latest_that_matches[1])

(* C8: for an entry whose latest_that_matches is greater than its latest,   *)
(* or present while latest is absent, is_outdated() returns false rather    *)
(* than failing, and any_outdated() does not count the entry.               *)
C8_BrokenOrderNotOutdated ==
    /\ ret \in BOOLEAN
    /\ (last.op = "is_outdated" /\ BreaksAssumedOrder(Target) => ret = FALSE)
    /\ (last.op = "any_outdated" =>
          ret = (\E p \in Positions(analyzed) :
                    /\ ~BreaksAssumedOrder(At(analyzed, p))
                    /\ AbsentLess(At(analyzed, p).latest_that_matches,
                                  At(analyzed, p).latest)))

\* any_outdated() has answered false although an entry holds
\* latest_that_matches = 2.0.0 over latest = 1.2.0 and another one holds
\* latest_that_matches with no latest.
C8_Witness ==
    /\ last.op = "any_outdated"
    /\ ret = FALSE
    /\ \E p \in Positions(analyzed) :
          /\ At(analyzed, p).latest = Some(Version(1, 2, 0))
          /\ At(analyzed, p).latest_that_matches = Some(Version(2, 0, 0))
    /\ \E p \in Positions(analyzed) :
          /\ At(analyzed, p).latest = None
          /\ At(analyzed, p).latest_that_matches # None

-----------------------------------------------------------------------------
\* v is a greatest release of the set.
IsGreatest(v, releases) ==
    v \in releases /\ \A w \in releases : ~VersionLess(v, w)

(* C9: for an entry the registry filled from a set of observed releases,    *)
(* is_outdated() is true iff the set is non-empty and its greatest release  *)
(* does not satisfy the requirement; equivalently, iff latest differs from  *)
(* latest_that_matches.                                                     *)
C9_RegistryFilled ==
    (last.op = "is_outdated" /\ seen[last.group][last.idx].filled) =>
        LET releases == seen[last.group][last.idx].releases
        IN  /\ ret = (\E v \in releases :
                         IsGreatest(v, releases) /\ ~Matches(Target.required, v))
            /\ ret = (Target.latest # Target.latest_that_matches)

\* is_outdated() has answered true for an entry filled from releases of which
\* some satisfy the requirement and the greatest does not.
C9_Witness ==
    /\ last.op = "is_outdated"
    /\ seen[last.group][last.idx].filled
    /\ ret = TRUE
    /\ Target.latest_that_matches # None
    /\ Cardinality(seen[last.group][last.idx].releases) >= 3

-----------------------------------------------------------------------------
(* C10: the value new returns has any_outdated() = false until a field is   *)
(* written, for every input; any_outdated() is true only if some entry's    *)
(* latest is present, and an entry whose latest is absent is never          *)
(* outdated, whatever its latest_that_matches holds.                        *)
C10_FreshNotOutdated ==
    /\ (last.op = "new" =>
          \A d \in DepsInputs : any_outdated(AnalyzedDependenciesNew(d)) = FALSE)
    /\ (last.op = "any_outdated" /\ writes = 0 => ret = FALSE)
    /\ (last.op = "any_outdated" /\ ret = TRUE =>
          \E p \in Positions(analyzed) : At(analyzed, p).latest # None)
    /\ (last.op = "is_outdated" /\ Target.latest = None => ret = FALSE)

\* any_outdated() has answered true after a single write to one of the four
\* entries of the full manifest.
C10_Witness ==
    /\ last.op = "any_outdated"
    /\ ret = TRUE
    /\ writes = 1
    /\ Cardinality(Positions(analyzed)) = 4

====
